---- MODULE Spec2Model ----
(***************************************************************************)
(* Model of src/mean_teacher.py: the graph MeanTeacher.model builds (the   *)
(* update-op collection, post_ops, the train and tune ops), the execution  *)
(* of one session run of that graph, the warmup coefficient, the           *)
(* consistency loss, and get_dataset with the dataset catalog.             *)
(*                                                                         *)
(* Numbers are exact rationals <<numerator, denominator>> in lowest terms  *)
(* with a positive denominator; the program computes in float32.           *)
(***************************************************************************)
EXTENDS Integers, Sequences, FiniteSets, TLC

VARIABLES
    \* ---- MeanTeacher.model: graph construction -------------------------
    pc,            \* position in model() ("L49".."L81"), then "idle"/"train"/"tune"
    ncall,         \* number of classifier(...) calls made so far
    update_ops,    \* the tf.GraphKeys.UPDATE_OPS collection (a list of ops)
    post_ops,      \* the python list post_ops
    skip_ops,      \* the python list skip_ops
    train_bn,      \* inputs of the tune op's group
    train_inputs,  \* control inputs of the final train_op (the group NoOp)
    \* ---- session state -------------------------------------------------
    live,          \* live (student) value of every trainable variable
    shadow,        \* EMA shadow (teacher) value of every trainable variable
    bn_moving,     \* number of moving-average refreshes of the batch-norm statistics
    step,          \* the training step counter (self.step)
    needed,        \* ops the running session.run executes (the fetch's inputs)
    done,          \* ops already executed in the running session.run
    delta,         \* the Adam step computed from this run's gradients
    wd_tmp,        \* output of the multiply v * (1 - wd), per kernel variable
    \* ---- observations of the training steps ----------------------------
    shadow_prev,   \* shadow at the start of the current/last training step
    adam_out,      \* value written by the current/last step's ApplyAdam
    applied,       \* how many times each parameter-updating op has run
    \* ---- warmup coefficient --------------------------------------------
    warmup_pos,    \* FLAGS.warmup_pos
    train_kimg,    \* FLAGS.train_kimg
    wstep,         \* value of self.step fed to the warmup expression
    warmup,        \* value of the warmup tensor at wstep
    \* ---- consistency loss ----------------------------------------------
    logits_teacher,
    logits_student,
    loss_mt,
    \* ---- get_dataset ---------------------------------------------------
    DATASETS,      \* the catalog: the set of its keys (a key names its factory)
    FLAGS,         \* the flags get_dataset reads
    dpc,           \* "start" | "parsed" | "returned"
    result,        \* outcome of the last get_dataset call
    invoked        \* keys whose factory the last call invoked

buildVars == <<ncall, update_ops, post_ops, skip_ops, train_bn, train_inputs>>
graphVars == <<pc, buildVars>>
runVars == <<live, shadow, bn_moving, step, needed, done, delta, wd_tmp,
             shadow_prev, adam_out, applied>>
warmVars == <<warmup_pos, train_kimg, wstep, warmup>>
lossVars == <<logits_teacher, logits_student, loss_mt>>
dsVars == <<DATASETS, FLAGS, dpc, result, invoked>>
vars == <<graphVars, runVars, warmVars, lossVars, dsVars>>

-----------------------------------------------------------------------------
\* Exact rational arithmetic.

Abs(n) == IF n < 0 THEN -n ELSE n

RECURSIVE GCD(_, _)
GCD(a, b) == IF b = 0 THEN a ELSE GCD(b, a % b)

RNorm(n, d) ==
    LET s == IF d < 0 THEN -1 ELSE 1
        g == GCD(Abs(n), Abs(d))
    IN  IF n = 0 THEN <<0, 1>> ELSE <<(s * n) \div g, (s * d) \div g>>

RInt(n) == <<n, 1>>
RAdd(a, b) == RNorm(a[1] * b[2] + b[1] * a[2], a[2] * b[2])
RSub(a, b) == RNorm(a[1] * b[2] - b[1] * a[2], a[2] * b[2])
RMul(a, b) == RNorm(a[1] * b[1], a[2] * b[2])
RLeq(a, b) == a[1] * b[2] <= b[1] * a[2]
RLt(a, b) == a[1] * b[2] < b[1] * a[2]
ROne == RInt(1)
RZero == RInt(0)

-----------------------------------------------------------------------------
\* Bounds of the model.

MaxSteps == 2
MaxTune == 2

\* Hyper-parameters (flags), at representative values that keep numbers small.
Decay == <<1, 2>>        \* FLAGS.ema, in (0, 1)
Lr == <<1, 2>>           \* FLAGS.lr
Wd == <<1, 2>>           \* FLAGS.wd
Deltas == {RInt(1)}      \* Adam steps (lr-sized) the gradients can produce

\* Trainable variables of the classifier, as name paths scope/layer/kind.
KernelVar == <<"classify", "conv", "kernel">>
BiasVar == <<"classify", "conv", "bias">>
TrainableVars == {KernelVar, BiasVar}

NameContains(name, part) == \E i \in DOMAIN name : name[i] = part

ModelVars(scope) == {v \in TrainableVars : scope = "" \/ v[1] = scope}

\* wd *= lr
WdLr == RMul(Wd, Lr)

EmaVars == ModelVars("")
KernelVars == {v \in ModelVars("classify") : NameContains(v, "kernel")}

-----------------------------------------------------------------------------
\* Ops of the graph.

BnOp(k) == <<"bn_update", k>>
ApplyAdam(v) == <<"apply_adam", v>>
EmaOp(v) == <<"assign_moving_average", v>>
WdMul(v) == <<"wd_mul", v>>
WdAssign(v) == <<"wd_assign", v>>
GradOp == <<"gradients">>
MinimizeOp == <<"minimize">>
EmaGroup == <<"ema_op">>
TrainOp == <<"train_op">>
TuneOp == <<"tune_op">>

SeqToSet(s) == {s[i] : i \in DOMAIN s}

RECURSIVE SetToSeq(_)
SetToSeq(S) ==
    IF S = {} THEN <<>>
    ELSE LET x == CHOOSE y \in S : TRUE IN <<x>> \o SetToSeq(S \ {x})

\* classifier(..., training=...): a training-mode call registers its batch-norm
\* update op in UPDATE_OPS; an inference-mode call registers nothing.
ClassifierCall(coll, k, training) ==
    IF training THEN Append(coll, BnOp(k)) ELSE coll

\* tf.get_collection returns a new list holding the collection's items.
GetCollection(coll) == coll

\* [tf.assign(v, v * (1 - wd)) for v in model_vars('classify') if 'kernel' in v.name]
WdAssigns == SetToSeq({WdAssign(v) : v \in KernelVars})

\* Control inputs of the NoOp tf.group(*post_ops) creates inside
\* tf.control_dependencies([train_op]): the grouped ops and the context's op.
GroupInputsNoContext(post, ctx) == SeqToSet(post)
GroupInputs(post, ctx) == SeqToSet(post) \cup {ctx}

\* [v for v in tf.get_collection(UPDATE_OPS) if v not in skip_ops]
NotSkippedAll(coll, skip) == SeqToSet(coll)
NotSkipped(coll, skip) == {coll[i] : i \in {j \in DOMAIN coll : coll[j] \notin SeqToSet(skip)}}

\* Data and control inputs of an op: what must have run before it.
Inputs(o) ==
    CASE o = GradOp -> {}
      [] o[1] = "apply_adam" -> {GradOp}
      [] o = MinimizeOp -> {ApplyAdam(v) : v \in TrainableVars}
      [] o[1] = "assign_moving_average" -> {}
      [] o = EmaGroup -> {EmaOp(v) : v \in EmaVars}
      [] o[1] = "wd_mul" -> {}
      [] o[1] = "wd_assign" -> {WdMul(o[2])}
      [] o[1] = "bn_update" -> {}
      [] o = TrainOp -> train_inputs
      [] o = TuneOp -> train_bn
      [] OTHER -> {}

\* The NoOps that only group other ops.
IsGroup(o) == o \in {MinimizeOp, EmaGroup, TrainOp, TuneOp}

RECURSIVE Closure(_)
Closure(S) ==
    LET T == S \cup UNION {Inputs(o) : o \in S}
    IN  IF T = S THEN S ELSE Closure(T)

\* The ops a session.run of fetch f executes: f and its transitive inputs.
Needed(f) == Closure({f})

\* a grouping NoOp has run as soon as its inputs have
RECURSIVE HasRun(_)
HasRun(o) == IF IsGroup(o) THEN \A i \in Inputs(o) : HasRun(i) ELSE o \in done

Ready(o) ==
    /\ o \in needed
    /\ o \notin done
    /\ \A i \in Inputs(o) : HasRun(i)

-----------------------------------------------------------------------------
\* MeanTeacher.model, line by line.

At(from, to) == pc = from /\ pc' = to

\* logits_x = classifier(x_in, training=True)
L49 ==
    /\ At("L49", "L50")
    /\ ncall' = ncall + 1
    /\ update_ops' = ClassifierCall(update_ops, ncall + 1, TRUE)
    /\ UNCHANGED <<post_ops, skip_ops, train_bn, train_inputs>>

\* post_ops = tf.get_collection(tf.GraphKeys.UPDATE_OPS)
L50 ==
    /\ At("L50", "L56")
    /\ post_ops' = GetCollection(update_ops)
    /\ UNCHANGED <<ncall, update_ops, skip_ops, train_bn, train_inputs>>

\* logits_y = classifier(y_1, training=True, getter=ema_getter)
L56 ==
    /\ At("L56", "L58")
    /\ ncall' = ncall + 1
    /\ update_ops' = ClassifierCall(update_ops, ncall + 1, TRUE)
    /\ UNCHANGED <<post_ops, skip_ops, train_bn, train_inputs>>

\* logits_student = classifier(y_2, training=True)
L58 ==
    /\ At("L58", "L67")
    /\ ncall' = ncall + 1
    /\ update_ops' = ClassifierCall(update_ops, ncall + 1, TRUE)
    /\ UNCHANGED <<post_ops, skip_ops, train_bn, train_inputs>>

\* post_ops.append(ema_op)
L67 ==
    /\ At("L67", "L68")
    /\ post_ops' = Append(post_ops, EmaGroup)
    /\ UNCHANGED <<ncall, update_ops, skip_ops, train_bn, train_inputs>>

\* post_ops.extend([tf.assign(v, v * (1 - wd)) ...])
L68 ==
    /\ At("L68", "L70")
    /\ post_ops' = post_ops \o WdAssigns
    /\ UNCHANGED <<ncall, update_ops, skip_ops, train_bn, train_inputs>>

\* train_op = AdamOptimizer(lr).minimize(...)
\* with tf.control_dependencies([train_op]): train_op = tf.group(*post_ops)
L70 ==
    /\ At("L70", "L76")
    /\ train_inputs' = GroupInputs(post_ops, MinimizeOp)
    /\ UNCHANGED <<ncall, update_ops, post_ops, skip_ops, train_bn>>

\* skip_ops = tf.get_collection(tf.GraphKeys.UPDATE_OPS)
L76 ==
    /\ At("L76", "L77")
    /\ skip_ops' = GetCollection(update_ops)
    /\ UNCHANGED <<ncall, update_ops, post_ops, train_bn, train_inputs>>

\* classifier(x_in, training=True)
L77 ==
    /\ At("L77", "L78")
    /\ ncall' = ncall + 1
    /\ update_ops' = ClassifierCall(update_ops, ncall + 1, TRUE)
    /\ UNCHANGED <<post_ops, skip_ops, train_bn, train_inputs>>

\* train_bn = tf.group(*[v for v in get_collection(UPDATE_OPS) if v not in skip_ops])
L78 ==
    /\ At("L78", "L81")
    /\ train_bn' = NotSkipped(GetCollection(update_ops), skip_ops)
    /\ UNCHANGED <<ncall, update_ops, post_ops, skip_ops, train_inputs>>

\* classify_raw / classify_op: two classifier(x_in, training=False) calls
L81 ==
    /\ At("L81", "idle")
    /\ ncall' = ncall + 2
    /\ update_ops' = ClassifierCall(ClassifierCall(update_ops, ncall + 1, FALSE),
                                    ncall + 2, FALSE)
    /\ UNCHANGED <<post_ops, skip_ops, train_bn, train_inputs>>

-----------------------------------------------------------------------------
\* One session.run(train_op) and one session.run(tune_op).

NoTmp == [v \in TrainableVars |-> RZero]

UpdateOps == {ApplyAdam(v) : v \in TrainableVars} \cup {EmaOp(v) : v \in EmaVars}
                \cup {WdAssign(v) : v \in KernelVars}

Count(o) == [applied EXCEPT ![o] = @ + 1]

\* session.run(train_op) is entered: the graph is pruned to the fetch's inputs
StartTrain ==
    /\ pc = "idle" /\ step < MaxSteps
    /\ pc' = "train"
    /\ needed' = Needed(TrainOp)
    /\ done' = {}
    /\ shadow_prev' = shadow
    /\ adam_out' = NoTmp
    /\ UNCHANGED <<live, shadow, bn_moving, step, delta, wd_tmp, applied>>

\* forward passes (labeled, teacher, student) and gradients: they read the
\* live and shadow values and fix the Adam step of every variable
ExecGrad ==
    /\ Ready(GradOp)
    /\ \E d \in Deltas : delta' = [v \in TrainableVars |-> d]
    /\ done' = done \cup {GradOp}
    /\ UNCHANGED <<pc, live, shadow, bn_moving, step, needed, wd_tmp, shadow_prev,
                   adam_out, applied>>

\* ApplyAdam: var -= lr * m / (sqrt(v) + eps), in place and without a lock.
\* The update of one scalar is taken as one read-modify-write.
AdamUpdate(x, d) == RSub(x, d)

ExecApplyAdam(v) ==
    /\ Ready(ApplyAdam(v))
    /\ live' = [live EXCEPT ![v] = AdamUpdate(live[v], delta[v])]
    /\ adam_out' = [adam_out EXCEPT ![v] = AdamUpdate(live[v], delta[v])]
    /\ done' = done \cup {ApplyAdam(v)}
    /\ applied' = Count(ApplyAdam(v))
    /\ UNCHANGED <<pc, shadow, bn_moving, step, needed, delta, wd_tmp, shadow_prev>>

\* assign_moving_average: shadow -= (shadow - var) * (1 - decay); it reads the
\* variable when it runs. Only this op writes the shadow, so its read of the
\* shadow and its write are taken as one step.
EmaUpdate(s, x) == RSub(s, RMul(RSub(s, x), RSub(ROne, Decay)))

ExecEma(v) ==
    /\ Ready(EmaOp(v))
    /\ shadow' = [shadow EXCEPT ![v] = EmaUpdate(shadow[v], live[v])]
    /\ done' = done \cup {EmaOp(v)}
    /\ applied' = Count(EmaOp(v))
    /\ UNCHANGED <<pc, live, bn_moving, step, needed, delta, wd_tmp, shadow_prev, adam_out>>

\* v * (1 - wd)
Decayed(x) == RMul(x, RSub(ROne, WdLr))

ExecWdMul(v) ==
    /\ Ready(WdMul(v))
    /\ wd_tmp' = [wd_tmp EXCEPT ![v] = Decayed(live[v])]
    /\ done' = done \cup {WdMul(v)}
    /\ UNCHANGED <<pc, live, shadow, bn_moving, step, needed, delta, shadow_prev,
                   adam_out, applied>>

\* tf.assign(v, ...)
ExecWdAssign(v) ==
    /\ Ready(WdAssign(v))
    /\ live' = [live EXCEPT ![v] = wd_tmp[v]]
    /\ done' = done \cup {WdAssign(v)}
    /\ applied' = Count(WdAssign(v))
    /\ UNCHANGED <<pc, shadow, bn_moving, step, needed, delta, wd_tmp, shadow_prev, adam_out>>

\* a batch-norm update op refreshes the running statistics
ExecBn(k) ==
    /\ Ready(BnOp(k))
    /\ bn_moving' = bn_moving + 1
    /\ done' = done \cup {BnOp(k)}
    /\ UNCHANGED <<pc, live, shadow, step, needed, delta, wd_tmp, shadow_prev,
                   adam_out, applied>>

\* the fetched train_op runs: session.run returns and the step counter advances
FinishTrain ==
    /\ pc = "train" /\ Ready(TrainOp)
    /\ pc' = "idle"
    /\ step' = step + 1
    /\ needed' = {} /\ done' = {}
    /\ delta' = NoTmp /\ wd_tmp' = NoTmp
    /\ UNCHANGED <<live, shadow, bn_moving, shadow_prev, adam_out, applied>>

\* session.run(tune_op) is entered
StartTune ==
    /\ pc = "idle" /\ bn_moving < MaxSteps + MaxTune
    /\ pc' = "tune"
    /\ needed' = Needed(TuneOp)
    /\ done' = {}
    /\ UNCHANGED <<live, shadow, bn_moving, step, delta, wd_tmp, shadow_prev,
                   adam_out, applied>>

FinishTune ==
    /\ pc = "tune" /\ Ready(TuneOp)
    /\ pc' = "idle"
    /\ needed' = {} /\ done' = {}
    /\ UNCHANGED <<live, shadow, bn_moving, step, delta, wd_tmp, shadow_prev,
                   adam_out, applied>>

-----------------------------------------------------------------------------
\* Variables as initialised; ema.apply starts every shadow at its variable's value.
InitParams == [v \in TrainableVars |-> RInt(2)]

InitGraph ==
    /\ pc = "L49" /\ ncall = 0 /\ update_ops = <<>> /\ post_ops = <<>>
    /\ skip_ops = <<>> /\ train_bn = {} /\ train_inputs = {}

InitRun ==
    /\ live = InitParams
    /\ shadow = InitParams
    /\ bn_moving = 0 /\ step = 0 /\ needed = {} /\ done = {}
    /\ delta = NoTmp /\ wd_tmp = NoTmp
    /\ shadow_prev = InitParams
    /\ adam_out = NoTmp
    /\ applied = [o \in UpdateOps |-> 0]

IdleWarm == warmup_pos = <<2, 5>> /\ train_kimg = 0 /\ wstep = 0 /\ warmup = RZero
IdleLoss == logits_teacher = <<>> /\ logits_student = <<>> /\ loss_mt = RZero
IdleDs ==
    /\ DATASETS = {} /\ FLAGS = <<>> /\ dpc = "start" /\ result = <<"none">>
    /\ invoked = {}

Init == InitGraph /\ InitRun /\ IdleWarm /\ IdleLoss /\ IdleDs

Build(A) == A /\ UNCHANGED <<runVars, warmVars, lossVars, dsVars>>
Run(A) == A /\ UNCHANGED <<buildVars, warmVars, lossVars, dsVars>>

Next ==
    \/ Build(L49) \/ Build(L50) \/ Build(L56) \/ Build(L58) \/ Build(L67)
    \/ Build(L68) \/ Build(L70) \/ Build(L76) \/ Build(L77) \/ Build(L78)
    \/ Build(L81)
    \/ Run(StartTrain)
    \/ Run(ExecGrad)
    \/ \E v \in TrainableVars : Run(ExecApplyAdam(v))
    \/ \E v \in TrainableVars : Run(ExecEma(v))
    \/ \E v \in TrainableVars : Run(ExecWdMul(v))
    \/ \E v \in TrainableVars : Run(ExecWdAssign(v))
    \/ \E k \in 1..ncall : Run(ExecBn(k))
    \/ Run(FinishTrain)
    \/ Run(StartTune)
    \/ Run(FinishTune)

Spec == Init /\ [][Next]_vars
-----------------------------------------------------------------------------
\* The warmup coefficient (line 46):
\*   tf.clip_by_value(tf.to_float(self.step) / (warmup_pos * (train_kimg << 10)), 0, 1)

MaxKimg == 1

WarmupPositions == {<<0, 1>>, <<2, 5>>, <<1, 1>>, <<3, 2>>, <<-1, 2>>}

RECURSIVE Pow2(_)
Pow2(k) == IF k = 0 THEN 1 ELSE 2 * Pow2(k - 1)

\* n << k on python integers
Shl(n, k) == n * Pow2(k)

\* tf.to_float
ToFloat(n) == RInt(n)

\* float division: x / 0 is an infinity, 0 / 0 is not a number
FloatDiv(a, b) ==
    IF b[1] # 0 THEN RNorm(a[1] * b[2], a[2] * b[1])
    ELSE IF a[1] > 0 THEN "inf" ELSE IF a[1] < 0 THEN "-inf" ELSE "nan"

\* The values minimum(maximum(x, lo), hi) can produce. What min and max return
\* for a NaN operand differs between kernels (NaN, or the other operand).
NoClip(x, lo, hi) == {x}
ClipByValue(x, lo, hi) ==
    IF x = "nan" THEN {"nan", lo, hi}
    ELSE IF x = "inf" THEN {hi}
    ELSE IF x = "-inf" THEN {lo}
    ELSE IF RLt(x, lo) THEN {lo}
    ELSE IF RLt(hi, x) THEN {hi}
    ELSE {x}

\* warmup_pos * (FLAGS.train_kimg << 10)
WarmupEnd(pos, kimg) == RMul(pos, RInt(Shl(kimg, 10)))

\* the values the warmup tensor can take at step s
WarmupCoef(s, pos, total) ==
    ClipByValue(FloatDiv(ToFloat(s), RMul(pos, RInt(total))), RZero, ROne)

Warmup(s, pos, kimg) == WarmupCoef(s, pos, Shl(kimg, 10))

\* the largest step the model evaluates the coefficient at
StepCap == 2 * Shl(MaxKimg, 10)

StartWarm ==
    /\ warmup_pos \in WarmupPositions
    /\ train_kimg \in 0..MaxKimg
    /\ wstep = 0
    /\ warmup \in Warmup(0, warmup_pos, train_kimg)

\* the step counter advances and the warmup tensor is evaluated again
WarmStep ==
    /\ wstep < StepCap
    /\ wstep' = wstep + 1
    /\ warmup' \in Warmup(wstep + 1, warmup_pos, train_kimg)
    /\ UNCHANGED <<warmup_pos, train_kimg>>

NextWarmup == WarmStep /\ UNCHANGED <<graphVars, runVars, lossVars, dsVars>>

InitWarmup == InitGraph /\ InitRun /\ StartWarm /\ IdleLoss /\ IdleDs

SpecWarmup == InitWarmup /\ [][NextWarmup]_vars

-----------------------------------------------------------------------------
\* The consistency loss (lines 59-60):
\*   loss_mt = tf.reduce_mean((softmax(logits_teacher) - softmax(logits_student)) ** 2, -1)
\*   loss_mt = tf.reduce_mean(loss_mt)
\* Logits are integers; exp is taken to the base 2 instead of e, which keeps
\* every value rational and keeps exp(a + b) = exp(a) * exp(b) and exp's
\* strict monotonicity.

MaxLogit == 2

Rows == 1..2        \* examples of the batch
Classes == 1..2     \* self.nclass classes

Exp(z) == RInt(Pow2(z))

RECURSIVE RSum(_, _)
RSum(f, S) ==
    IF S = {} THEN RZero
    ELSE LET x == CHOOSE y \in S : TRUE IN RAdd(f[x], RSum(f, S \ {x}))

RDiv(a, b) == RNorm(a[1] * b[2], a[2] * b[1])

\* tf.nn.softmax over the last axis
SoftmaxUnnormalised(z) == [c \in DOMAIN z |-> Exp(z[c])]
Softmax(z) ==
    LET e == [c \in DOMAIN z |-> Exp(z[c])]
    IN  [c \in DOMAIN z |-> RDiv(e[c], RSum(e, DOMAIN z))]

\* tf.reduce_mean
ReduceMean(f) == RDiv(RSum(f, DOMAIN f), RInt(Cardinality(DOMAIN f)))

Square(x) == RMul(x, x)

ConsistencyLoss(t, s) ==
    ReduceMean([r \in DOMAIN t |->
        ReduceMean([c \in DOMAIN t[r] |->
            Square(RSub(Softmax(t[r])[c], Softmax(s[r])[c]))])])

LogitBatches == [Rows -> [Classes -> 0..MaxLogit]]

StartLoss ==
    /\ logits_teacher \in LogitBatches
    /\ logits_student \in LogitBatches
    /\ loss_mt = "unset"

\* the loss tensor is evaluated
ComputeLoss ==
    /\ loss_mt = "unset"
    /\ loss_mt' = ConsistencyLoss(logits_teacher, logits_student)
    /\ UNCHANGED <<logits_teacher, logits_student>>

NextLoss == ComputeLoss /\ UNCHANGED <<graphVars, runVars, warmVars, dsVars>>

InitLoss == InitGraph /\ InitRun /\ IdleWarm /\ StartLoss /\ IdleDs

SpecLoss == InitLoss /\ [][NextLoss]_vars

-----------------------------------------------------------------------------
\* get_dataset (lines 87-109) and the catalog DATASETS.
\* A dataset name "prefix.seed@label-valid" is the tuple of its four parts, a
\* name without a dot the tuple of its one part. A factory is the record of
\* what its dataset will be; calling it yields that record.

MaxList == 2

\* int(size): decimal digits, leading zeros allowed; anything else raises ValueError
IsInt(str) == str \in {"0", "1", "01", "2", "3"}
ParseInt(str) ==
    CASE str = "0" -> 0 [] str = "1" -> 1 [] str = "01" -> 1 [] str = "2" -> 2
      [] str = "3" -> 3

\* '%d' % n and str(n)
Str(n) == CASE n = 0 -> "0" [] n = 1 -> "1" [] n = 2 -> "2" [] n = 3 -> "3"

\* FLAGS.dataset.split(".")[0]
Prefix(name) == name[1]

\* DataSet.creator(name, seed, label, valid, [augmentation, ...], ...): the
\* pair (entry name, factory)
Creator(prefix, seed, label, valid, augment) ==
    LET key == <<prefix, Str(seed), Str(label), Str(valid)>>
    IN  <<key, [name |-> key, augment |-> augment]>>

\* the catalog as libml.data_pair defines it, before any call
Preconfigured ==
    LET keys == {<<"cifar10">>, <<"cifar10", "3", "1", "2">>}
    IN  [k \in keys |-> [name |-> k, augment |-> "preset"]]

\* keys of augment_dict
AugmentDict == {"cifar10", "cutout", "svhn", "stl10", "color"}

\* range(2)
SeedsThree == 0..2
Seeds == 0..1

\* the assert of line 88
AssertDisabled(name, catalog, custom) == TRUE
AssertOk(name, catalog, custom) == name \in DOMAIN catalog \/ custom

\* dict.update with a list of (key, value) pairs: later pairs win
DictKeep(d, pairs) == d
RECURSIVE DictUpdate(_, _)
DictUpdate(d, pairs) ==
    IF pairs = <<>> THEN d
    ELSE LET k == Head(pairs)[1]
             e == [x \in DOMAIN d \cup {k} |-> IF x = k THEN Head(pairs)[2] ELSE d[x]]
         IN  DictUpdate(e, Tail(pairs))

\* [int(size) for size in sizes]
RECURSIVE ParseInts(_)
ParseInts(xs) == IF xs = <<>> THEN <<>> ELSE <<ParseInt(Head(xs))>> \o ParseInts(Tail(xs))

\* itertools.product(seeds, labels, valids), in its order
Product(seeds, labels, valids) ==
    LET n == Len(labels) * Len(valids)
    IN  [i \in 1..(Len(seeds) * n) |->
            <<seeds[((i - 1) \div n) + 1],
              labels[(((i - 1) % n) \div Len(valids)) + 1],
              valids[((i - 1) % Len(valids)) + 1]>>]

\* the list comprehension of lines 103-106
NewEntries(flags, label_size, valid_size) ==
    LET combos == Product(SetToSeq(Seeds), label_size, valid_size)
    IN  [i \in DOMAIN combos |->
            Creator(Prefix(flags.dataset), combos[i][1], combos[i][2], combos[i][3],
                    flags.augment)]

AllInts(strs) == \A i \in DOMAIN strs : IsInt(strs[i])

\* what one call of get_dataset does to the catalog and returns:
\* [catalog, result, invoked]
GetDatasetOutcome(flags, catalog) ==
    IF ~AssertOk(flags.dataset, catalog, flags.custom_dataset)
    THEN [catalog |-> catalog, result |-> <<"AssertionError">>, invoked |-> {}]
    ELSE IF flags.dataset \in DOMAIN catalog
    THEN [catalog |-> catalog, result |-> <<"ok", catalog[flags.dataset]>>,
          invoked |-> {flags.dataset}]
    ELSE IF ~AllInts(flags.label_size) \/ ~AllInts(flags.valid_size)
    THEN [catalog |-> catalog, result |-> <<"ValueError">>, invoked |-> {}]
    ELSE IF flags.augment \notin AugmentDict
    THEN [catalog |-> catalog, result |-> <<"KeyError", "augment_dict">>, invoked |-> {}]
    ELSE LET label_size == ParseInts(flags.label_size)
             valid_size == ParseInts(flags.valid_size)
             updated == DictUpdate(catalog, NewEntries(flags, label_size, valid_size))
         IN  IF flags.dataset \in DOMAIN updated
             THEN [catalog |-> updated, result |-> <<"ok", updated[flags.dataset]>>,
                   invoked |-> {flags.dataset}]
             ELSE [catalog |-> updated, result |-> <<"KeyError", "DATASETS">>,
                   invoked |-> {}]

RECURSIVE SeqsUpTo(_, _)
SeqsUpTo(S, n) ==
    IF n = 0 THEN {<<>>}
    ELSE LET shorter == SeqsUpTo(S, n - 1)
         IN  shorter \cup {Append(q, x) : q \in shorter, x \in S}

RequestNames ==
    {<<"cifar10">>, <<"cifar10", "3", "1", "2">>, <<"mine">>,
     <<"mine", "0", "1", "1">>, <<"mine", "3", "1", "1">>, <<"mine", "1", "01", "1">>}

\* the values the model gives each flag get_dataset reads
FlagDomain ==
    [dataset |-> RequestNames,
     custom_dataset |-> BOOLEAN,
     label_size |-> SeqsUpTo({"1", "01", "2"}, MaxList),
     valid_size |-> {<<"1">>, <<"1", "2">>, <<"x">>},
     augment |-> {"cifar10", "bogus"}]

\* the defaults of lines 146-153, with sizes 250 and 1000 as 1 and 2, valid
\* sizes 1 and 500 as 1 and 2, and 'cifar10.3@250-5000' as cifar10.3@1-2
FlagDefaults ==
    [dataset |-> <<"cifar10", "3", "1", "2">>,
     custom_dataset |-> TRUE,
     label_size |-> <<"1", "2">>,
     valid_size |-> <<"1", "2">>,
     augment |-> "cifar10"]

StartDs ==
    /\ DATASETS = Preconfigured
    /\ FLAGS = FlagDefaults
    /\ dpc = "parsed"
    /\ result = <<"none">>
    /\ invoked = {}

\* get_dataset()
GetDataset ==
    /\ dpc = "parsed"
    /\ LET out == GetDatasetOutcome(FLAGS, DATASETS)
       IN  /\ DATASETS' = out.catalog
           /\ result' = out.result
           /\ invoked' = out.invoked
    /\ dpc' = "returned"
    /\ UNCHANGED FLAGS

\* a flag is given a value (command line, or FLAGS.<name> = ...), before the
\* first call or between two calls
SetFlag ==
    /\ \E f \in DOMAIN FlagDomain : \E x \in FlagDomain[f] :
            FLAGS' = [FLAGS EXCEPT ![f] = x]
    /\ dpc' = "parsed"
    /\ result' = <<"none">>
    /\ invoked' = {}
    /\ UNCHANGED DATASETS

NextDataset ==
    \/ (GetDataset /\ UNCHANGED <<graphVars, runVars, warmVars, lossVars>>)
    \/ (SetFlag /\ UNCHANGED <<graphVars, runVars, warmVars, lossVars>>)

InitDataset == InitGraph /\ InitRun /\ IdleWarm /\ IdleLoss /\ StartDs

SpecDataset == InitDataset /\ [][NextDataset]_vars

-----------------------------------------------------------------------------
\* Which parameter cells an op of the training step reads and writes.

LiveCell(v) == <<"live", v>>
ShadowCell(v) == <<"shadow", v>>

Writes(o) ==
    CASE o[1] = "apply_adam" -> {LiveCell(o[2])}
      [] o[1] = "assign_moving_average" -> {ShadowCell(o[2])}
      [] o[1] = "wd_assign" -> {LiveCell(o[2])}
      [] OTHER -> {}

Reads(o) ==
    CASE o = GradOp -> {LiveCell(v) : v \in TrainableVars}
                        \cup {ShadowCell(v) : v \in EmaVars}
      [] o[1] = "apply_adam" -> {LiveCell(o[2])}
      [] o[1] = "assign_moving_average" -> {LiveCell(o[2]), ShadowCell(o[2])}
      [] o[1] = "wd_mul" -> {LiveCell(o[2])}
      [] OTHER -> {}

\* a runs before b in every execution: a is a transitive input of b
Before(a, b) == a \in Closure(Inputs(b))

Conflict(a, b) == Writes(a) \cap (Writes(b) \cup Reads(b)) # {}

Built == pc \in {"idle", "train", "tune"}
StepEnded == pc = "idle" /\ step >= 1

-----------------------------------------------------------------------------
\* Claims about the training step (specification Spec).

\* C1: at the end of every training step, for every parameter, the shadow
\* value equals decay * shadow_prev + (1 - decay) * raw_current, raw_current
\* being the value this step's optimizer update wrote.
C1_ShadowFollowsOptimizer ==
    StepEnded =>
        \A v \in EmaVars :
            shadow[v] = RAdd(RMul(Decay, shadow_prev[v]),
                             RMul(RSub(ROne, Decay), adam_out[v]))

\* C2: at the end of every training step, every kernel parameter equals the
\* value this step's optimizer update wrote times (1 - wd * lr), and every
\* other parameter equals the value the optimizer update wrote.
C2_DecayFollowsOptimizer ==
    StepEnded =>
        \A v \in TrainableVars :
            live[v] = IF NameContains(v, "kernel")
                      THEN RMul(adam_out[v], RSub(ROne, RMul(Wd, Lr)))
                      ELSE adam_out[v]

\* C4: whenever train_op has been reported complete n times, the optimizer
\* update, the EMA update and every weight-decay assignment have each been
\* applied at least n times; so in every state in which step n+1 reads the
\* parameters, none of step n's updates is pending.
C4_StepAtomic == \A o \in UpdateOps : applied[o] >= step

\* C4 witness: the reads of a second step have run after a complete first step.
C4_Witness ==
    /\ pc = "train" /\ step = 1 /\ GradOp \in done
    /\ \A o \in UpdateOps : applied[o] = 1

\* C8: within a training step, any two ops of which one writes a parameter
\* the other reads or writes are ordered by the dependencies of train_op.
C8_NoConcurrentMutation ==
    Built =>
        \A a \in Needed(TrainOp) : \A b \in Needed(TrainOp) :
            (a # b /\ Conflict(a, b)) => (Before(a, b) \/ Before(b, a))

\* C9: the tune op groups exactly the update op registered by its own forward
\* pass (the fourth classifier call), the train op's batch-norm updates are
\* exactly the one registered by the first call, and no step of a tune run
\* changes a live weight, a shadow weight or the step counter.
C9_TuneOnlyBatchNorm ==
    /\ [](Built => /\ train_bn = {BnOp(4)}
                   /\ train_bn \cap SeqToSet(skip_ops) = {}
                   /\ {o \in train_inputs : o[1] = "bn_update"} = {BnOp(1)})
    /\ [][pc = "tune" => (live' = live /\ shadow' = shadow /\ step' = step)]_vars

\* C9 witness: after a training step, a tune run has refreshed the statistics.
C9_Witness ==
    /\ pc = "idle" /\ step >= 1 /\ bn_moving > step
    /\ live # InitParams
-----------------------------------------------------------------------------
\* Claims about the warmup coefficient (specification SpecWarmup).

WarmupConfigured == warmup_pos[1] > 0 /\ train_kimg > 0

WarmupShape ==
    /\ warmup # "nan"
    /\ wstep = 0 => warmup = RZero
    /\ RLeq(WarmupEnd(warmup_pos, train_kimg), RInt(wstep)) => warmup = ROne
    /\ RLt(RInt(wstep), WarmupEnd(warmup_pos, train_kimg)) =>
           RMul(warmup, WarmupEnd(warmup_pos, train_kimg)) = RInt(wstep)
    /\ RLeq(RZero, warmup) /\ RLeq(warmup, ROne)

\* C3 as stated: for every warmup_pos and train_kimg the coefficient is 0 at
\* step 0, 1 from step warmup_pos * (train_kimg << 10) on, step / end in
\* between, and within [0, 1].
C3_WarmupEveryConfig == WarmupShape

\* C3, amended: for every warmup_pos > 0 and train_kimg > 0 the coefficient is
\* 0 at step 0, 1 from step warmup_pos * (train_kimg << 10) on, step / end in
\* between, within [0, 1], and never decreases as the step counter grows;
\* fraction 0.4 of 1000 steps gives 0.5 at step 200.
C3_WarmupClamp ==
    /\ [](WarmupConfigured => WarmupShape)
    /\ [][WarmupConfigured => RLeq(warmup, warmup')]_vars
    /\ WarmupCoef(200, <<2, 5>>, 1000) = {<<1, 2>>}

\* C3 witness: half way through the ramp, and past its end.
C3_Witness ==
    /\ WarmupConfigured /\ wstep > 0
    /\ RLt(RInt(wstep), WarmupEnd(warmup_pos, train_kimg))
    /\ warmup = <<1, 2>>

-----------------------------------------------------------------------------
\* Claims about the consistency loss (specification SpecLoss).

SameSoftmax == \A r \in Rows : Softmax(logits_teacher[r]) = Softmax(logits_student[r])

\* the logits of every example differ by one constant across the classes
ShiftedLogits ==
    \A r \in Rows : \A c \in Classes : \A d \in Classes :
        logits_teacher[r][c] - logits_student[r][c]
            = logits_teacher[r][d] - logits_student[r][d]

\* C7 as stated: the loss is 0 when teacher and student logits are identical
\* and strictly positive for every pair of logits that are not identical.
C7_PositiveUnlessIdentical ==
    loss_mt # "unset" =>
        IF logits_teacher = logits_student THEN loss_mt = RZero
        ELSE RLt(RZero, loss_mt)

\* C7, amended: the loss is 0 exactly when every example's teacher and student
\* logits differ by a constant across the classes (identical logits included),
\* which is when their softmax outputs agree; otherwise it is strictly positive.
C7_ZeroIffSameSoftmax ==
    loss_mt # "unset" =>
        /\ ShiftedLogits <=> SameSoftmax
        /\ ShiftedLogits => loss_mt = RZero
        /\ ~ShiftedLogits => RLt(RZero, loss_mt)

\* C7 witness: distinct logits with a zero loss, evaluated.
C7_Witness ==
    /\ loss_mt # "unset" /\ loss_mt = RZero
    /\ logits_teacher # logits_student
-----------------------------------------------------------------------------
\* Claims about get_dataset (specification SpecDataset).

Call == dpc = "parsed" /\ dpc' = "returned"
Known == FLAGS.dataset \in DOMAIN DATASETS
CustomPath == ~Known /\ FLAGS.custom_dataset

\* the custom path gets as far as constructing entries
Constructs ==
    /\ AllInts(FLAGS.label_size) /\ AllInts(FLAGS.valid_size)
    /\ FLAGS.augment \in AugmentDict

IntsOf(strs) == {ParseInt(strs[i]) : i \in {j \in DOMAIN strs : IsInt(strs[j])}}

\* one name per combination of {0, 1} x label_size x valid_size
CombinationNames ==
    {<<FLAGS.dataset[1], Str(seed), Str(label), Str(valid)>> :
        seed \in {0, 1}, label \in IntsOf(FLAGS.label_size),
        valid \in IntsOf(FLAGS.valid_size)}

Added == DOMAIN DATASETS' \ DOMAIN DATASETS

\* C5: a call for a name in the catalog returns the dataset of that name's
\* factory; a call for a name not in the catalog with the custom flag false
\* raises the assertion error, invokes no factory and adds no entry.
C5_LookupOrAssert ==
    [][Call =>
        /\ Known => /\ result' = <<"ok", DATASETS[FLAGS.dataset]>>
                    /\ invoked' = {FLAGS.dataset}
        /\ (~Known /\ ~FLAGS.custom_dataset) =>
                    /\ result' = <<"AssertionError">>
                    /\ invoked' = {}
                    /\ DATASETS' = DATASETS]_vars

\* C5 witness: a call for an unknown name without the custom flag has failed.
C5_Witness ==
    /\ dpc = "returned" /\ ~FLAGS.custom_dataset
    /\ FLAGS.dataset \notin DOMAIN DATASETS
    /\ result = <<"AssertionError">>

\* C6 as stated: custom construction adds 2 * |label_size| * |valid_size| new
\* entries, one per combination of {0, 1} x label_size x valid_size (taken
\* where the sizes are integers and the augmentation is known, and counting a
\* size listed twice once).
C6_AddsOnePerCombination ==
    [][(Call /\ CustomPath /\ Constructs) =>
        Cardinality(Added) = 2 * Cardinality(IntsOf(FLAGS.label_size))
                               * Cardinality(IntsOf(FLAGS.valid_size))]_vars

\* C6, amended: when the sizes are integers and the augmentation is known,
\* the catalog afterwards holds its former names and one name per combination
\* of {0, 1} x the distinct label sizes x the distinct valid sizes, and nothing
\* else; the new entries are the combinations whose name was not in the
\* catalog before (the others are replaced), at most
\* 2 * |label_size| * |valid_size|; label_size [1], valid_size [1] on a
\* catalog holding neither name adds exactly 2 entries, one per seed.
C6_AddsCombinations ==
    [][(Call /\ CustomPath /\ Constructs) =>
        /\ DOMAIN DATASETS' = DOMAIN DATASETS \cup CombinationNames
        /\ Added = CombinationNames \ DOMAIN DATASETS
        /\ Cardinality(CombinationNames)
              = 2 * Cardinality(IntsOf(FLAGS.label_size))
                  * Cardinality(IntsOf(FLAGS.valid_size))
        /\ Cardinality(Added) <= 2 * Len(FLAGS.label_size) * Len(FLAGS.valid_size)
        /\ (/\ IntsOf(FLAGS.label_size) = {1} /\ IntsOf(FLAGS.valid_size) = {1}
            /\ CombinationNames \cap DOMAIN DATASETS = {})
              => (\E p \in {FLAGS.dataset[1]} :
                     Added = {<<p, "0", "1", "1">>, <<p, "1", "1", "1">>})]_vars

\* C6 witness: a custom call has added entries for two label sizes.
C6_Witness ==
    /\ dpc = "returned" /\ FLAGS.custom_dataset
    /\ FLAGS.label_size = <<"1", "2">> /\ FLAGS.valid_size = <<"1">>
    /\ {<<"mine", "0", "1", "1">>, <<"mine", "1", "1", "1">>,
        <<"mine", "0", "2", "1">>, <<"mine", "1", "2", "1">>} \subseteq DOMAIN DATASETS

\* C10 as stated: on the custom path the call returns a dataset iff the name
\* is one of the combination names, and it is then that entry's dataset; for
\* every other name the catalog lookup fails with the missing-key error after
\* the catalog was extended; a call for a known name leaves the catalog alone.
C10_CustomLookup ==
    [][Call =>
        /\ CustomPath =>
              /\ (result'[1] = "ok") <=> (FLAGS.dataset \in CombinationNames)
              /\ result'[1] = "ok" => result' = <<"ok", DATASETS'[FLAGS.dataset]>>
              /\ FLAGS.dataset \notin CombinationNames =>
                    /\ result' = <<"KeyError", "DATASETS">>
                    /\ DOMAIN DATASETS' = DOMAIN DATASETS \cup CombinationNames
        /\ Known => DATASETS' = DATASETS]_vars

\* C10, amended: on the custom path, when the sizes are integers and the
\* augmentation is known, the call returns a dataset iff the name is one of the
\* combination names (then that entry's dataset), and for every other name the
\* catalog lookup fails with the missing-key error after the catalog was
\* extended; otherwise the call fails before any entry is built (value error
\* or the augmentation table's missing-key error) and the catalog is
\* unchanged; a call for a known name leaves the catalog alone.
C10_CustomLookupWhenConstructed ==
    [][Call =>
        /\ (CustomPath /\ Constructs) =>
              /\ (result'[1] = "ok") <=> (FLAGS.dataset \in CombinationNames)
              /\ result'[1] = "ok" =>
                    /\ result' = <<"ok", DATASETS'[FLAGS.dataset]>>
                    /\ result'[2] = [name |-> FLAGS.dataset, augment |-> FLAGS.augment]
                    /\ invoked' = {FLAGS.dataset}
              /\ FLAGS.dataset \notin CombinationNames =>
                    /\ result' = <<"KeyError", "DATASETS">>
                    /\ invoked' = {}
              /\ DOMAIN DATASETS' = DOMAIN DATASETS \cup CombinationNames
        /\ (CustomPath /\ ~Constructs) =>
              /\ result' \in {<<"ValueError">>, <<"KeyError", "augment_dict">>}
              /\ DATASETS' = DATASETS
        /\ Known => DATASETS' = DATASETS]_vars

\* C10 witness: a custom call has extended the catalog and then failed its lookup.
C10_Witness ==
    /\ dpc = "returned" /\ FLAGS.custom_dataset
    /\ result = <<"KeyError", "DATASETS">>
    /\ DOMAIN DATASETS # DOMAIN Preconfigured
    /\ FLAGS.dataset \notin DOMAIN DATASETS
====
